---- MODULE Spec2Model ----
(***************************************************************************)
(* Model of two pieces of the Jodit editor:                                *)
(*   - the `component` class decorator (core/decorators/component.ts)      *)
(*   - the ai-assistant plugin (plugins/ai-assistant/ai-assistant.ts)      *)
(***************************************************************************)
EXTENDS Integers, Sequences, FiniteSets, TLC

(***************************************************************************)
(* Bounds                                                                  *)
(***************************************************************************)
MaxDepth == 2
MaxInv == 1
MaxForms == 2
MaxInserts == 1

(***************************************************************************)
(* State                                                                   *)
(***************************************************************************)
\* the component decorator
VARIABLES chain, isProd, cpc, componentStatus, readyCalls, bodyStatus, thrown

\* the ai-assistant plugin
VARIABLES hasCallback, selHtml, nInv, inv,
          dialog, container, dlgCreated, contCreated, dialogOpen,
          containerPrompt, formLog, requests, document, focused, cursor,
          destructLog, destructed

cvars == <<chain, isProd, cpc, componentStatus, readyCalls, bodyStatus, thrown>>
ivars == <<hasCallback, selHtml, nInv, inv>>
dvars == <<dialog, container, dlgCreated, contCreated, dialogOpen,
           containerPrompt, formLog, destructLog, destructed>>
svars == <<requests, document, focused, cursor>>
pvars == <<ivars, dvars, svars>>
vars == <<cvars, pvars>>

(***************************************************************************)
(* Part I : the component decorator                                        *)
(*                                                                         *)
(* chain is the inheritance chain of user classes, base first.  Each class *)
(* is either decorated with component or not and either defines its own   *)
(* className() returning a constant string or inherits it.  The root of    *)
(* the chain (the abstract Component) defines no className function.       *)
(* `new chain[Len(chain)](...)` is executed step by step: constructor      *)
(* bodies run base first, the wrapper of a decorated class runs its checks *)
(* right after the body of the class it wraps.                             *)
(***************************************************************************)

Names == {"A", "B"}

ClassDefs == [dec : BOOLEAN, cls : Names \cup {"inherit"}]

Chains == UNION {[1..n -> ClassDefs] : n \in 1..MaxDepth}

Top == Len(chain)

RECURSIVE className(_)
\* elm.className looked up on the prototype chain of class k; "none" when no
\* class of the chain defines the function
className(k) ==
  IF k = 0 THEN "none"
  ELSE IF chain[k].cls # "inherit" THEN chain[k].cls
  ELSE className(k - 1)

\* a cn that yields the empty string where the code yields NaN
cnEmptyString(k) == IF className(k) # "none" THEN className(k) ELSE ""

\* cn: isFunction(elm.className) ? elm.className() : NaN
cn(k) == IF className(k) # "none" THEN className(k) ELSE "NaN"

\* JavaScript === on string | NaN : NaN is not equal to itself
StrictEq(a, b) == a # "NaN" /\ b # "NaN" /\ a = b

\* Object.getPrototypeOf(this) === newConstructorFunction.prototype, in the
\* wrapper of class k, for an instance created by new chain[Top]
isSamePrototype(k) == k = Top /\ chain[Top].dec

\* cn(this) === cn(newConstructorFunction.prototype), in the wrapper of k
isSameClassName(k) == StrictEq(cn(Top), cn(k))

NoValue == [kind |-> "none", message |-> ""]

Idle ==
  [prompt |-> "", selAtEvent |-> "", calls |-> <<>>,
   cb |-> "notcalled", cbval |-> NoValue,
   wrapper |-> "none", wval |-> NoValue, cancelled |-> FALSE,
   thenP |-> "none", terr |-> NoValue, caught |-> FALSE, out |-> <<>>]

\* the plugin before any event
PluginConstructed ==
  /\ selHtml = "s1"
  /\ nInv = 0
  /\ inv = [i \in 1..MaxInv |-> Idle]
  /\ dialog = "none" /\ container = "none"
  /\ dlgCreated = 0 /\ contCreated = 0
  /\ dialogOpen = FALSE
  /\ containerPrompt = ""
  /\ formLog = <<>>
  /\ requests = <<>> /\ document = <<>>
  /\ focused = FALSE /\ cursor = "current"
  /\ destructLog = <<>>
  /\ destructed = FALSE

\* no construction under way
NoConstruction ==
  /\ chain = <<[dec |-> FALSE, cls |-> "inherit"]>>
  /\ isProd = FALSE
  /\ cpc = [level |-> 1, phase |-> "done"]
  /\ componentStatus = "beforeReady"
  /\ readyCalls = <<>>
  /\ bodyStatus = <<>>
  /\ thrown = FALSE

InitComponent ==
  /\ hasCallback = FALSE
  /\ PluginConstructed
  /\ chain \in Chains
  /\ isProd \in BOOLEAN
  /\ cpc = [level |-> 1, phase |-> "body"]
  /\ componentStatus = "beforeReady"
  /\ readyCalls = <<>>
  /\ bodyStatus = <<>>
  /\ thrown = FALSE

\* what runs after the body of class k has finished
AfterBody(k) ==
  IF chain[k].dec THEN [level |-> k, phase |-> "wrap"]
  ELSE IF k = Top THEN [level |-> k, phase |-> "done"]
  ELSE [level |-> k + 1, phase |-> "body"]

\* the constructor body of class cpc.level (the code after its super() call)
ConstructorBody ==
  /\ cpc.phase = "body"
  /\ bodyStatus' = Append(bodyStatus, componentStatus)
  /\ cpc' = AfterBody(cpc.level)
  /\ UNCHANGED <<chain, isProd, componentStatus, readyCalls, thrown, pvars>>

\* newConstructorFunction.constructor after super(...args) returned: throws
WrapperThrow ==
  /\ cpc.phase = "wrap"
  /\ ~isProd /\ isSamePrototype(cpc.level) /\ ~isSameClassName(cpc.level)
  /\ thrown' = TRUE
  /\ cpc' = [level |-> cpc.level, phase |-> "thrown"]
  /\ UNCHANGED <<chain, isProd, componentStatus, readyCalls, bodyStatus, pvars>>

\* newConstructorFunction.constructor after super(...args) returned: no throw
WrapperReady ==
  /\ cpc.phase = "wrap"
  /\ ~(~isProd /\ isSamePrototype(cpc.level) /\ ~isSameClassName(cpc.level))
  /\ IF isSamePrototype(cpc.level) \/ isSameClassName(cpc.level)
       THEN /\ componentStatus' = "ready"
            /\ readyCalls' = Append(readyCalls, cpc.level)
       ELSE UNCHANGED <<componentStatus, readyCalls>>
  /\ cpc' = IF cpc.level = Top THEN [level |-> cpc.level, phase |-> "done"]
            ELSE [level |-> cpc.level + 1, phase |-> "body"]
  /\ UNCHANGED <<chain, isProd, bodyStatus, thrown, pvars>>

NextComponent == ConstructorBody \/ WrapperThrow \/ WrapperReady

SpecComponent == InitComponent /\ [][NextComponent]_vars

(***************************************************************************)
(* Part II : the ai-assistant plugin                                       *)
(*                                                                         *)
(* inv[i] is the i-th 'invokeAiAssistant' event: the callback call, the    *)
(* cancellable wrapper promise returned by jodit.async.promise, the        *)
(* promise derived by .then and the .catch handler.  out is what the       *)
(* invocation emitted: messages shown and events fired, in order.          *)
(***************************************************************************)

Prompts == {"p1", "p2"}
Htmls == {"h1", "h2"}
Selections == {"s1", "s2"}

AbortError == [kind |-> "abort", message |-> "aborted"]
TypeError == [kind |-> "other", message |-> "not a function"]
CallbackErrors == {AbortError, [kind |-> "other", message |-> "m1"],
                   [kind |-> "other", message |-> "m2"]}
ListenerErrors == {AbortError, [kind |-> "other", message |-> "l1"]}

\* isAbortError(error)
isAbortError(error) == error.kind = "abort"

InitPlugin ==
  /\ hasCallback \in BOOLEAN
  /\ PluginConstructed
  /\ NoConstruction

\* jodit.s.focus()
s_focus(s) == [s EXCEPT !.focused = TRUE]

\* jodit.s.setCursorAfter(jodit.s.current())
s_setCursorAfter(s) == [s EXCEPT !.cursor = "afterCurrent"]

\* jodit.s.insertHTML(html): the fragment goes into the document at the
\* cursor; each entry of document keeps where and in which state of the
\* editor and of the dialog it was inserted
s_insertHTML(s, html, open) ==
  [s EXCEPT !.document = Append(@, [html |-> html, focused |-> s.focused,
                                    cursor |-> s.cursor, open |-> open]),
            !.cursor = "current"]

\* the user moves the selection in the editor
ChangeSelection ==
  /\ \E s \in Selections : s # selHtml /\ selHtml' = s
  /\ UNCHANGED <<hasCallback, nInv, inv, dvars, svars, cvars>>

\* an executor that calls the callback a second time after a synchronous throw
ExecutorRetry(r, args, sync) ==
  IF ~hasCallback
    THEN [r EXCEPT !.cb = "missing", !.cbval = TypeError,
                   !.wrapper = "rejected", !.wval = TypeError]
    ELSE LET c == [r EXCEPT !.calls = Append(@, args)]
         IN IF sync = NoValue
              THEN [c EXCEPT !.cb = "inflight", !.wrapper = "pending"]
              ELSE [c EXCEPT !.calls = Append(@, args),
                             !.cb = "threw", !.cbval = sync,
                             !.wrapper = "rejected", !.wval = sync]

\* the executor of jodit.async.promise up to its first await: the callback
\* is called with args; a synchronous throw (also the
\* TypeError of calling an undefined callback) is caught and rejects the
\* wrapper, otherwise the callback is in flight and the wrapper is pending
Executor(r, args, sync) ==
  IF ~hasCallback
    THEN [r EXCEPT !.cb = "missing", !.cbval = TypeError,
                   !.wrapper = "rejected", !.wval = TypeError]
    ELSE LET c == [r EXCEPT !.calls = Append(@, args)]
         IN IF sync = NoValue
              THEN [c EXCEPT !.cb = "inflight", !.wrapper = "pending"]
              ELSE [c EXCEPT !.cb = "threw", !.cbval = sync,
                             !.wrapper = "rejected", !.wval = sync]

\* onInvokeAiAssistant(prompt): focus, read the selected HTML, start the
\* promise chain.  sync is what the callback throws synchronously, if
\* anything.  The watcher is bound to the plugin, so no event arrives after
\* the teardown of the plugin.
onInvokeAiAssistant(prompt, sync) ==
  /\ ~destructed
  /\ nInv < MaxInv
  /\ nInv' = nInv + 1
  /\ LET s == s_focus([focused |-> focused, cursor |-> cursor, document |-> document])
         selectedText == selHtml
         r == [Idle EXCEPT !.prompt = prompt, !.selAtEvent = selHtml,
                           !.thenP = "pending"]
     IN /\ focused' = s.focused
        /\ inv' = [inv EXCEPT ![nInv + 1] =
              Executor(r, [prompt |-> prompt, html |-> selectedText,
                           focused |-> s.focused], sync)]
  /\ UNCHANGED <<hasCallback, selHtml, dvars, requests, document, cursor, cvars>>

\* the callback's promise is fulfilled with html: the executor resumes and
\* calls resolve(result), which settles the wrapper only if still pending
CallbackResolve(i, html) ==
  /\ inv[i].cb = "inflight"
  /\ inv' = [inv EXCEPT ![i] =
       IF @.wrapper = "pending"
         THEN [@ EXCEPT !.cb = "resolved", !.cbval = [kind |-> "html", message |-> html],
                        !.wrapper = "fulfilled", !.wval = [kind |-> "html", message |-> html]]
         ELSE [@ EXCEPT !.cb = "resolved", !.cbval = [kind |-> "html", message |-> html]]]
  /\ UNCHANGED <<hasCallback, selHtml, nInv, dvars, svars, cvars>>

\* the callback's promise is rejected: the executor resumes in its catch and
\* calls reject(error)
CallbackReject(i, error) ==
  /\ inv[i].cb = "inflight"
  /\ inv' = [inv EXCEPT ![i] =
       IF @.wrapper = "pending"
         THEN [@ EXCEPT !.cb = "rejected", !.cbval = error,
                        !.wrapper = "rejected", !.wval = error]
         ELSE [@ EXCEPT !.cb = "rejected", !.cbval = error]]
  /\ UNCHANGED <<hasCallback, selHtml, nInv, dvars, svars, cvars>>

\* jodit.async cancels its promises (clear / editor teardown): every pending
\* wrapper is rejected with an abort error
Cancel ==
  /\ \E i \in 1..MaxInv : inv[i].wrapper = "pending"
  /\ inv' = [i \in 1..MaxInv |->
       IF inv[i].wrapper = "pending"
         THEN [inv[i] EXCEPT !.wrapper = "rejected", !.wval = AbortError,
                             !.cancelled = TRUE]
         ELSE inv[i]]
  /\ UNCHANGED <<hasCallback, selHtml, nInv, dvars, svars, cvars>>

\* a then-handler that also inserts the fragment into the document
ThenHandlerInsert(i, listener) ==
  /\ inv[i].thenP = "pending"
  /\ inv[i].wrapper \in {"fulfilled", "rejected"}
  /\ inv' = [inv EXCEPT ![i] =
       IF @.wrapper = "fulfilled"
         THEN LET f == [@ EXCEPT !.out = Append(@, <<"ai-assistant-response", inv[i].wval.message>>)]
              IN IF listener = NoValue
                   THEN [f EXCEPT !.thenP = "fulfilled"]
                   ELSE [f EXCEPT !.thenP = "rejected", !.terr = listener]
         ELSE [@ EXCEPT !.thenP = "rejected", !.terr = inv[i].wval]]
  /\ (inv[i].wrapper = "rejected" => listener = NoValue)
  /\ document' = IF inv[i].wrapper = "fulfilled"
                   THEN s_insertHTML([focused |-> focused, cursor |-> cursor,
                                      document |-> document],
                                     inv[i].wval.message, dialogOpen).document
                   ELSE document
  /\ UNCHANGED <<hasCallback, selHtml, nInv, dvars, requests, focused, cursor, cvars>>

\* .then((htmlFragment) => jodit.e.fire('ai-assistant-response', htmlFragment))
\* a listener of the event may throw, which rejects the derived promise; a
\* rejected wrapper passes its error on to the derived promise
ThenHandler(i, listener) ==
  /\ inv[i].thenP = "pending"
  /\ inv[i].wrapper \in {"fulfilled", "rejected"}
  /\ inv' = [inv EXCEPT ![i] =
       IF @.wrapper = "fulfilled"
         THEN LET f == [@ EXCEPT !.out = Append(@, <<"ai-assistant-response", inv[i].wval.message>>)]
              IN IF listener = NoValue
                   THEN [f EXCEPT !.thenP = "fulfilled"]
                   ELSE [f EXCEPT !.thenP = "rejected", !.terr = listener]
         ELSE [@ EXCEPT !.thenP = "rejected", !.terr = inv[i].wval]]
  /\ (inv[i].wrapper = "rejected" => listener = NoValue)
  /\ UNCHANGED <<hasCallback, selHtml, nInv, dvars, svars, cvars>>

\* a catch handler that fires the event before it shows the message
CatchHandlerEventFirst(i) ==
  /\ inv[i].thenP = "rejected"
  /\ ~inv[i].caught
  /\ inv' = [inv EXCEPT ![i] =
       IF isAbortError(@.terr)
         THEN [@ EXCEPT !.caught = TRUE]
         ELSE [@ EXCEPT !.caught = TRUE,
                        !.out = @ \o << <<"ai-assistant-error", inv[i].terr.message>>,
                                        <<"message.error", inv[i].terr.message>> >>]]
  /\ UNCHANGED <<hasCallback, selHtml, nInv, dvars, svars, cvars>>

\* a catch handler without the isAbortError test
CatchHandlerNoAbortTest(i) ==
  /\ inv[i].thenP = "rejected"
  /\ ~inv[i].caught
  /\ inv' = [inv EXCEPT ![i] =
       [@ EXCEPT !.caught = TRUE,
                 !.out = @ \o << <<"message.error", inv[i].terr.message>>,
                                 <<"ai-assistant-error", inv[i].terr.message>> >>]]
  /\ UNCHANGED <<hasCallback, selHtml, nInv, dvars, svars, cvars>>

\* .catch(error => ...): runs for a rejection of the promise derived by
\* .then, whether it comes from the wrapper or from the then handler
CatchHandler(i) ==
  /\ inv[i].thenP = "rejected"
  /\ ~inv[i].caught
  /\ inv' = [inv EXCEPT ![i] =
       IF isAbortError(@.terr)
         THEN [@ EXCEPT !.caught = TRUE]
         ELSE [@ EXCEPT !.caught = TRUE,
                        !.out = @ \o << <<"message.error", inv[i].terr.message>>,
                                        <<"ai-assistant-error", inv[i].terr.message>> >>]]
  /\ UNCHANGED <<hasCallback, selHtml, nInv, dvars, svars, cvars>>

\* @cache get __dialog : jodit.dlg(...) on the first read only
GetDialog(d, n) == IF d = "none" THEN <<"created", n + 1>> ELSE <<d, n>>

\* @cache get __container : new UiAiAssistant(...) on the first read only
GetContainer(c, n) == IF c = "none" THEN <<"created", n + 1>> ELSE <<c, n>>

\* onGenerateAiAssistantForm(prompt): this.__dialog is read before
\* this.__container; the opened dialog takes the focus from the editor
onGenerateAiAssistantForm(prompt) ==
  /\ ~destructed
  /\ Len(formLog) < MaxForms
  /\ LET d == GetDialog(dialog, dlgCreated)
         c == GetContainer(container, contCreated)
     IN /\ dialog' = d[1] /\ dlgCreated' = d[2]
        /\ container' = c[1] /\ contCreated' = c[2]
        /\ formLog' = Append(formLog, [dialog |-> d[2], container |-> c[2], prompt |-> prompt])
  /\ dialogOpen' = TRUE
  /\ focused' = FALSE
  /\ containerPrompt' = prompt
  /\ UNCHANGED <<ivars, requests, document, cursor, destructLog, destructed, cvars>>

\* onInsert(html) handed to UiAiAssistant
onInsert(s, html, open) == s_insertHTML(s_focus(s), html, open)

\* onInsertAfter(html) handed to UiAiAssistant
onInsertAfter(s, html, open) ==
  s_insertHTML(s_setCursorAfter(s_focus(s)), html, open)

\* the container, shown in the open dialog, asks for an insertion
ContainerInsert(kind, html) ==
  /\ container = "created" /\ dialogOpen
  /\ Len(requests) < MaxInserts
  /\ requests' = Append(requests, [kind |-> kind, html |-> html])
  /\ LET s0 == [focused |-> focused, cursor |-> cursor, document |-> document]
         s1 == IF kind = "onInsertAfter" THEN onInsertAfter(s0, html, dialogOpen)
                                         ELSE onInsert(s0, html, dialogOpen)
     IN /\ focused' = s1.focused
        /\ cursor' = s1.cursor
        /\ document' = s1.document
  /\ dialogOpen' = FALSE
  /\ UNCHANGED <<ivars, dialog, container, dlgCreated, contCreated,
                 containerPrompt, formLog, destructLog, destructed, cvars>>

\* cached(this, name): the cached value, or null when the getter never ran
cached(v) == v = "created"

\* a teardown that reads the getters this.__container and this.__dialog
beforeDestructGetters ==
  /\ ~destructed
  /\ destructed' = TRUE
  /\ destructLog' = <<"container", "dialog">>
  /\ container' = "destructed"
  /\ dialog' = "destructed"
  /\ dlgCreated' = GetDialog(dialog, dlgCreated)[2]
  /\ contCreated' = GetContainer(container, contCreated)[2]
  /\ dialogOpen' = FALSE
  /\ UNCHANGED <<ivars, svars, containerPrompt, formLog, cvars>>

\* beforeDestruct: the container, then the dialog, when cached
beforeDestruct ==
  /\ ~destructed
  /\ destructed' = TRUE
  /\ destructLog' = (IF cached(container) THEN <<"container">> ELSE <<>>)
                    \o (IF cached(dialog) THEN <<"dialog">> ELSE <<>>)
  /\ container' = IF cached(container) THEN "destructed" ELSE container
  /\ dialog' = IF cached(dialog) THEN "destructed" ELSE dialog
  /\ dialogOpen' = FALSE
  /\ UNCHANGED <<ivars, svars, dlgCreated, contCreated, containerPrompt, formLog, cvars>>

Next ==
  \/ ChangeSelection
  \/ \E p \in Prompts, e \in CallbackErrors \cup {NoValue} : onInvokeAiAssistant(p, e)
  \/ \E i \in 1..MaxInv, h \in Htmls : CallbackResolve(i, h)
  \/ \E i \in 1..MaxInv, e \in CallbackErrors : CallbackReject(i, e)
  \/ Cancel
  \/ \E i \in 1..MaxInv, l \in ListenerErrors \cup {NoValue} : ThenHandler(i, l)
  \/ \E i \in 1..MaxInv : CatchHandler(i)

\* the invocation of the callback, from the event to the last handler
Spec == InitPlugin /\ [][Next]_vars

NextDialog ==
  \/ \E p \in Prompts : onGenerateAiAssistantForm(p)
  \/ \E k \in {"onInsert", "onInsertAfter"}, h \in Htmls : ContainerInsert(k, h)
  \/ beforeDestruct
  \/ onInvokeAiAssistant("p1", NoValue)
  \/ \E i \in 1..MaxInv, h \in Htmls : CallbackResolve(i, h)
  \/ \E i \in 1..MaxInv : ThenHandler(i, NoValue)

\* the dialog, the container and the insertion into the document, next to
\* successful invocations of the callback
SpecDialog == InitPlugin /\ [][NextDialog]_vars


(***************************************************************************)
(* Properties of the component decorator (SpecComponent)                   *)
(***************************************************************************)
Range(seq) == {seq[k] : k \in DOMAIN seq}

\* C5: for a decorated class with a className method, the status is still
\* 'beforeReady' while the class's own constructor body runs, every
\* setStatus('ready') comes after that body, and the status is 'ready' when
\* the new expression returns
C5_ReadyOnlyAfterConstructor ==
  (chain[Top].dec /\ className(Top) # "none") =>
     /\ Len(bodyStatus) >= Top => bodyStatus[Top] = "beforeReady"
     /\ readyCalls # <<>> => Len(bodyStatus) = Top
     /\ cpc.phase = "done" => componentStatus = "ready"

\* C8: when a decorated class extends a decorated class, setStatus('ready')
\* is called exactly once, by the wrapper of the most-derived class, and
\* never by the wrapper of an ancestor
C8_OnlyMostDerivedSetsReady ==
  (Top >= 2 /\ chain[Top].dec /\ \E k \in 1..(Top - 1) : chain[k].dec) =>
     /\ Range(readyCalls) \subseteq {Top}
     /\ cpc.phase = "done" => readyCalls = <<Top>>

\* C9: directly instantiating a decorated class that has no className
\* function throws in a non-production build without any setStatus('ready');
\* in a production build it does not throw and setStatus('ready') is called
C9_NoClassName ==
  (chain[Top].dec /\ className(Top) = "none") =>
     /\ ~isProd => /\ readyCalls = <<>>
                   /\ cpc.phase # "done"
                   /\ (cpc = [level |-> Top, phase |-> "thrown"]) = thrown
     /\ isProd => /\ ~thrown
                  /\ cpc.phase # "thrown"
                  /\ cpc.phase = "done" => readyCalls = <<Top>>

C9_Witness ==
  /\ chain[Top].dec /\ className(Top) = "none" /\ ~isProd
  /\ Top >= 2 /\ chain[1].dec
  /\ thrown /\ cpc.phase = "thrown" /\ readyCalls = <<>>

(***************************************************************************)
(* Properties of the invocation of the callback (Spec)                     *)
(***************************************************************************)
Event(i, name) == SelectSeq(inv[i].out, LAMBDA x : x[1] = name)

Started(i) == inv[i].wrapper # "none"

\* no handler of the promise chain is left to run
Finished(i) == inv[i].thenP = "fulfilled" \/ inv[i].caught

\* the callback failed on its own with an error that is not an abort error
FailedNonAbort(i) ==
  inv[i].cb \in {"rejected", "threw", "missing"} /\ ~isAbortError(inv[i].cbval)

Surfaced(m) == << <<"message.error", m>>, <<"ai-assistant-error", m>> >>

\* C1: when the callback resolves with h and the wrapper is not cancelled,
\* 'ai-assistant-response' is fired exactly once with h and neither an error
\* message nor 'ai-assistant-error' appears
C1_ResponseOnSuccess ==
  \A i \in 1..MaxInv :
    (inv[i].cb = "resolved" /\ ~inv[i].cancelled) =>
       /\ Event(i, "message.error") = <<>>
       /\ Event(i, "ai-assistant-error") = <<>>
       /\ Len(Event(i, "ai-assistant-response")) <= 1
       /\ Finished(i) =>
            inv[i].out = << <<"ai-assistant-response", inv[i].cbval.message>> >>

\* C2 as stated: whenever the callback fails with a non-abort error, the
\* message is shown and then 'ai-assistant-error' is fired once with it, and
\* no 'ai-assistant-response' is fired
C2_ErrorSurfaced ==
  \A i \in 1..MaxInv :
    FailedNonAbort(i) =>
       /\ inv[i].out \in {<<>>, Surfaced(inv[i].cbval.message)}
       /\ Finished(i) => inv[i].out = Surfaced(inv[i].cbval.message)

\* C2 amended: the same, for invocations whose wrapper promise was not
\* cancelled before the callback failed
C2_ErrorSurfacedUnlessCancelled ==
  \A i \in 1..MaxInv :
    (FailedNonAbort(i) /\ ~inv[i].cancelled) =>
       /\ inv[i].out \in {<<>>, Surfaced(inv[i].cbval.message)}
       /\ Finished(i) => inv[i].out = Surfaced(inv[i].cbval.message)

C2_Witness ==
  \E i \in 1..MaxInv :
    /\ inv[i].cb = "rejected" /\ inv[i].cbval.message = "m2"
    /\ ~inv[i].cancelled /\ Finished(i)
    /\ inv[i].out = Surfaced("m2")

\* C3: an invocation whose wrapper promise ended with an abort error (it was
\* cancelled, or the callback failed with an abort error) never shows a
\* message and never fires an event, whatever the callback does afterwards
C3_AbortIgnored ==
  \A i \in 1..MaxInv :
    (inv[i].wrapper = "rejected" /\ isAbortError(inv[i].wval)) =>
       inv[i].out = <<>>

C3_Witness ==
  \E i \in 1..MaxInv :
    /\ inv[i].cancelled /\ inv[i].cb = "rejected" /\ ~isAbortError(inv[i].cbval)
    /\ inv[i].caught /\ inv[i].out = <<>>

C10_ExclusiveOutcomes ==
  \A i \in 1..MaxInv :
    /\ Len(Event(i, "ai-assistant-response")) + Len(Event(i, "ai-assistant-error")) <= 1
    /\ Event(i, "ai-assistant-response") # <<>> => Event(i, "message.error") = <<>>

(***************************************************************************)
(* Properties of the dialog and of the insertion (SpecDialog)              *)
(***************************************************************************)
\* C6: dialog and container do not exist before the first form event, are
\* created at most once, every form event opens dialog 1 with container 1
\* and sets the prompt, and teardown destructs the container and then the
\* dialog exactly when they exist, without creating them
C6_LazyOnce ==
  /\ formLog = <<>> => /\ dialog = "none" /\ container = "none"
                       /\ dlgCreated = 0 /\ contCreated = 0
  /\ dlgCreated <= 1 /\ contCreated <= 1
  /\ \A k \in DOMAIN formLog : formLog[k].dialog = 1 /\ formLog[k].container = 1
  /\ formLog # <<>> => containerPrompt = formLog[Len(formLog)].prompt
  /\ destructed =>
       destructLog = IF formLog # <<>> THEN <<"container", "dialog">> ELSE <<>>
  /\ ~destructed => destructLog = <<>>

C6_Witness ==
  /\ destructed /\ Len(formLog) >= 2
  /\ formLog[1].prompt # formLog[2].prompt
  /\ destructLog = <<"container", "dialog">>

\* C7: the document receives exactly the fragments the container asked to
\* insert, each once, with the selection focused (and the cursor moved after
\* the current node for onInsertAfter) and the dialog still open, which is
\* closed by the end of the request; a successful callback inserts nothing
C7_InsertOnlyOnRequest ==
  /\ [](/\ Len(document) = Len(requests)
        /\ \A k \in DOMAIN requests :
             /\ document[k].html = requests[k].html
             /\ document[k].focused
             /\ document[k].open
             /\ (document[k].cursor = "afterCurrent") = (requests[k].kind = "onInsertAfter"))
  /\ [][requests' # requests => ~dialogOpen']_vars

C7_Witness ==
  /\ \E i \in 1..MaxInv : /\ Event(i, "ai-assistant-response") # <<>>
                          /\ requests # <<>>
                          /\ inv[i].cbval.message # requests[1].html
  /\ requests[1].kind = "onInsertAfter"
  /\ ~dialogOpen

====
